---- MODULE Spec2Model ----
(***************************************************************************)
(* A model of app.py of excalidraw_ui: the data-directory restore          *)
(* (restore_data_from_zip), the /import-data handler, the pull             *)
(* orchestrator (start_pull, _run_pull_task, api_pull_status), the         *)
(* document store handlers (save_excalidraw_data, add_instance,            *)
(* delete_instance) and the Socket.IO room handlers.                       *)
(*                                                                         *)
(* Every handler is a small sequential process: its position is a program  *)
(* counter, its locals are functions over the handler's identity, and one  *)
(* action is one step of the handler between two points where another      *)
(* thread can run.                                                         *)
(***************************************************************************)
EXTENDS Integers, Sequences, FiniteSets, TLC

(***************************************************************************)
(* The file system: top-level entries of a directory.                      *)
(***************************************************************************)

\* The names a top-level entry of the data root or of an archive can have.
Names == {"db", "f"}

\* What an entry holds. Two values are enough to tell old data from new.
Content == {"x", "y"}

Absent == "absent"

\* A directory: for each name, what it holds, or Absent.
Dir == [Names -> Content \cup {Absent}]

EmptyDir == [n \in Names |-> Absent]

\* os.listdir(d): the names present in d.
Listing(d) == {n \in Names : d[n] # Absent}

\* A path that may be missing, a directory, or (after a rename onto the
\* path) a regular file holding blob.
Missing == [kind |-> "missing", files |-> EmptyDir, blob |-> Absent]

NewDir(d) == [kind |-> "dir", files |-> d, blob |-> Absent]

AsFile(b) == [kind |-> "file", files |-> EmptyDir, blob |-> b]

Path == {Missing} \cup {NewDir(d) : d \in Dir} \cup {AsFile(b) : b \in Content}

\* os.path.exists(p)
Exists(p) == p.kind # "missing"

\* What a failed shutil.rmtree can leave of a directory: any part of its
\* entries already deleted, the directory itself still there.
Remnants(d) == {e \in Dir : \A n \in Names : e[n] \in {d[n], Absent}}

\* The uploaded or downloaded zip: does zipfile extract it, and its
\* top-level entries.
Zips == [ok : BOOLEAN, files : Dir]

NoZip == [ok |-> FALSE, files |-> EmptyDir]

\* What GET <url>/export-data of a peer returns as a zip: the peer's data
\* root, which holds the peer's database.db and nothing else. The download
\* can still be one that zipfile cannot extract.
FetchZips == {z \in Zips : z.files = [n \in Names |-> IF n = "db" THEN "y" ELSE Absent]}

(***************************************************************************)
(* Processes.                                                              *)
(***************************************************************************)

\* Requests to POST /import-data.
ImportReqs == {"i1", "i2"}

\* Requests to POST /start-pull/<instance_id>; the thread a request starts
\* carries the request's name.
PullReqs == {"p1", "p2"}

\* A run holds at most this many calls of restore_data_from_zip.
MaxCalls == 2

\* A run holds at most this many calls into the file system or the
\* database that fail for a reason of their own (a full disk, a busy
\* volume, a permission). A call that fails because of what another thread
\* did to the path is not counted.
MaxFaults == 3

\* A run of the pull orchestrator holds at most this many of them.
MaxPullFaults == 2

\* How many calls fail where the pull is checked with its scheduling.
MaxLiveFaults == 1

\* Everything that calls restore_data_from_zip.
Callers == ImportReqs \cup PullReqs

VARIABLES
    DATA_DIR,      \* the entries of the data root
    backup_dir,    \* basedir/data_temp_backup, one path for all callers
    extract_dir,   \* per caller: its tempfile.mkdtemp(prefix='data_new_')
    db_open,       \* whether db holds open connections to DATA_DIR/database.db
    rpc,           \* per caller: position inside restore_data_from_zip
    todo,          \* per caller: the entries its current for loop has left
    rres,          \* per caller: what restore_data_from_zip returns
    zip,           \* per caller: the zip it was given
    before,        \* per caller: DATA_DIR when it was called (history)
    touched,       \* per caller: has it released db or changed DATA_DIR (history)
    ncalls,        \* how many times restore_data_from_zip was called
    faults,        \* how many file-system or database calls were made to fail
    iresp,         \* per import request: the category of its last flash
    pull_status,   \* the global {'status': ..., 'message': ...}
    pull_lock,     \* threading.Lock(): "free", or the request that holds it
    qpc,           \* per start_pull request: its position
    qresp,         \* per start_pull request: what its last call answered
    tpc,           \* per start_pull request: position of the thread it started
    terr,          \* per thread: the exception it is handling
    tmp_zip_path   \* per thread: is tmp_zip_path set (the file is on disk)

VARIABLES
    drawings,      \* the Excalidraw table: id -> data, or NoRow
    instances,     \* the Instance table: the rows [id, name, url] in order
    next_id,       \* how many instance ids were given out
    spc,           \* per store request: its position
    sloc,          \* per store request: its locals
    sresp,         \* per store request: what its last call answered
    nodes_file,    \* basedir/nodes.json: is it there, and the nodes it lists
    boots,         \* how many times the startup block has run
    seed_out       \* what the last seed_nodes printed

seedVars == <<nodes_file, boots, seed_out>>

storeVars == <<drawings, instances, next_id, spc, sloc, sresp, seedVars>>

VARIABLES
    conn,          \* per connection: new, connected or gone
    members,       \* per room: the connections join_room has put in it
    participants,  \* the participants dict: the rooms in insertion order
    inbox,         \* per connection: the messages delivered to it
    log,           \* every emit, in order (history)
    arrived        \* the events received whose handler is a task of its own

roomVars == <<conn, members, participants, inbox, log, arrived>>

VARIABLES
    status_copy    \* what the last GET /api/pull-status was answered with

VARIABLES
    data_root      \* which directory is at the path DATA_DIR

fsVars == <<data_root, DATA_DIR, backup_dir, extract_dir, db_open>>

rVars == <<rpc, todo, rres, zip, before, touched, ncalls, faults>>

restoreVars == <<fsVars, rVars, iresp>>

pullVars == <<pull_status, pull_lock, qpc, qresp, tpc, terr, tmp_zip_path>>

\* What a step of restore_data_from_zip never writes.
outsideRestore == <<iresp, pullVars, storeVars, roomVars, status_copy>>

\* What the store's routes leave alone, and what the socket handlers do.
outsideStore == <<restoreVars, pullVars, roomVars, seedVars, status_copy>>

outsideRooms == <<restoreVars, pullVars, storeVars, status_copy>>

\* What the pull and the import routes leave alone outside their own state.
elsewhere == <<storeVars, roomVars, status_copy>>

vars == <<restoreVars, pullVars, storeVars, roomVars, status_copy>>

\* The positions of the swap phase (step 3) and of the recovery (step 4).
SwapPhase == {"s3a", "s3b", "s3b_mk", "s3c_ls", "s3c", "s3d_ls", "s3d", "s3e"}

RecoveryPhase == {"r4a_ls", "r4a", "r4b", "r4b_mv", "r4b_rm"}

FinalPhase == {"fin_extract", "fin_backup"}

\* The message of pull_status: the text's fixed part and the detail
\* formatted into it.
Msg(text, detail) == [text |-> text, detail |-> detail]

\* No GET /api/pull-status was answered yet.
NoCopy == [status |-> "none", message |-> Msg("", "")]

\* Line 46: pull_status = {'status': 'idle', 'message': ''}
InitPull ==
    /\ pull_status = [status |-> "idle", message |-> Msg("", "")]
    /\ status_copy = NoCopy
    /\ pull_lock = "free"
    /\ qpc = [r \in PullReqs |-> "idle"]
    /\ qresp = [r \in PullReqs |-> "none"]
    /\ tpc = [r \in PullReqs |-> "dead"]
    /\ terr = [r \in PullReqs |-> "none"]
    /\ tmp_zip_path = [r \in PullReqs |-> FALSE]

\* Lines 21-24 and 618: the data root exists and db.create_all() has made
\* database.db in it; no restore is running.
InitRestore ==
    /\ data_root = "made_at_start"
    /\ DATA_DIR \in {d \in Dir : d["db"] # Absent}
    /\ backup_dir = Missing
    /\ extract_dir = [c \in Callers |-> Missing]
    /\ db_open = TRUE
    /\ rpc = [c \in Callers |-> "idle"]
    /\ todo = [c \in Callers |-> {}]
    /\ rres = [c \in Callers |-> "none"]
    /\ zip = [c \in Callers |-> NoZip]
    /\ before = [c \in Callers |-> EmptyDir]
    /\ touched = [c \in Callers |-> FALSE]
    /\ ncalls = 0
    /\ faults \in 0 .. MaxFaults
    /\ iresp = [c \in ImportReqs |-> "none"]

(***************************************************************************)
(* restore_data_from_zip                                                   *)
(***************************************************************************)

\* The call: lines 105-107. The caller passes the zip; mkdtemp makes a
\* fresh directory of the caller's own.
RestoreCall(c, z) ==
    /\ rpc[c] = "idle"
    /\ ncalls < MaxCalls
    /\ ncalls' = ncalls + 1
    /\ rpc' = [rpc EXCEPT ![c] = "extract"]
    /\ zip' = [zip EXCEPT ![c] = z]
    /\ extract_dir' = [extract_dir EXCEPT ![c] = NewDir(EmptyDir)]
    /\ before' = [before EXCEPT ![c] = DATA_DIR]
    /\ touched' = [touched EXCEPT ![c] = FALSE]
    /\ rres' = [rres EXCEPT ![c] = "none"]
    /\ todo' = [todo EXCEPT ![c] = {}]
    /\ UNCHANGED <<data_root, DATA_DIR, backup_dir, db_open, faults>>

\* Whether the next call may fail for a reason of its own.
MayFail == IF faults < MaxFaults THEN BOOLEAN ELSE {FALSE}

Cost(fail) == IF fail THEN 1 ELSE 0

\* An exception in the swap phase: control goes to the handler at line 147.
Raise(c) == rpc' = [rpc EXCEPT ![c] = "r4a_ls"]

\* An exception in the recovery: line 164-165 returns the CRITICAL failure,
\* then the finally block runs.
Critical(c) ==
    /\ rpc' = [rpc EXCEPT ![c] = "fin_extract"]
    /\ rres' = [rres EXCEPT ![c] = "critical"]

\* shutil.rmtree(p) of an existing path, as a set of outcomes
\* <<raised, path afterwards, was it a fault>>. A regular file makes rmtree
\* raise; a directory is removed, or rmtree raises having deleted some of
\* it.
Rmtree(p) ==
    CASE p.kind = "missing" -> {<<TRUE, p, FALSE>>}
      [] p.kind = "file"    -> {<<TRUE, p, FALSE>>}
      [] OTHER              ->
           {<<FALSE, Missing, FALSE>>}
             \cup {<<TRUE, NewDir(e), TRUE>> : e \in
                     IF TRUE \in MayFail THEN Remnants(p.files) ELSE {}}

\* A variant of step 2 that closes the database connections before it
\* extracts, as if lines 122-124 stood above the first try.
RestoreExtract_CloseFirst(c) ==
    /\ rpc[c] = "extract"
    /\ db_open' = FALSE
    /\ touched' = [touched EXCEPT ![c] = TRUE]
    /\ IF zip[c].ok
       THEN /\ extract_dir' = [extract_dir EXCEPT ![c] = NewDir(zip[c].files)]
            /\ rpc' = [rpc EXCEPT ![c] = "s3a"]
            /\ rres' = rres
            /\ faults' = faults
       ELSE \E o \in Rmtree(extract_dir[c]) :
              /\ extract_dir' = [extract_dir EXCEPT ![c] = o[2]]
              /\ faults' = faults + Cost(o[3])
              /\ rpc' = [rpc EXCEPT ![c] = "ret"]
              /\ rres' = [rres EXCEPT ![c] =
                            IF o[1] THEN "raised" ELSE "extract_failed"]
    /\ UNCHANGED <<data_root, DATA_DIR, backup_dir, todo, zip, before, ncalls>>
    /\ UNCHANGED outsideRestore

\* Step 2, lines 110-116: extract everything first. On an exception the
\* staging directory is removed and the function returns; this return is
\* outside the try that owns the finally block, and an rmtree that raises
\* in the handler leaves the function with its exception.
RestoreExtract(c) ==
    /\ rpc[c] = "extract"
    /\ IF zip[c].ok
       THEN /\ extract_dir' = [extract_dir EXCEPT ![c] = NewDir(zip[c].files)]
            /\ rpc' = [rpc EXCEPT ![c] = "s3a"]
            /\ rres' = rres
            /\ faults' = faults
       ELSE \E o \in Rmtree(extract_dir[c]) :
              /\ extract_dir' = [extract_dir EXCEPT ![c] = o[2]]
              /\ faults' = faults + Cost(o[3])
              /\ rpc' = [rpc EXCEPT ![c] = "ret"]
              /\ rres' = [rres EXCEPT ![c] =
                            IF o[1] THEN "raised" ELSE "extract_failed"]
    /\ UNCHANGED <<data_root, DATA_DIR, backup_dir, db_open, todo, zip, before, touched, ncalls>>
    /\ UNCHANGED outsideRestore

\* Step 3a, lines 122-124: db.session.remove(); db.engine.dispose().
\* Either call can raise.
RestoreCloseDb(c) ==
    /\ rpc[c] = "s3a"
    /\ touched' = [touched EXCEPT ![c] = TRUE]
    /\ \E fail \in MayFail :
         /\ faults' = faults + Cost(fail)
         /\ IF fail
            THEN /\ Raise(c)
                 /\ \E o \in {db_open, FALSE} : db_open' = o
            ELSE /\ rpc' = [rpc EXCEPT ![c] = "s3b"]
                 /\ db_open' = FALSE
    /\ UNCHANGED <<data_root, DATA_DIR, backup_dir, extract_dir, todo, rres, zip, before, ncalls>>
    /\ UNCHANGED outsideRestore

\* Step 3b, lines 127-128: remove a leftover backup directory.
RestoreCleanBackup(c) ==
    /\ rpc[c] = "s3b"
    /\ IF Exists(backup_dir)
       THEN \E o \in Rmtree(backup_dir) :
              /\ backup_dir' = o[2]
              /\ faults' = faults + Cost(o[3])
              /\ IF o[1] THEN Raise(c) ELSE rpc' = [rpc EXCEPT ![c] = "s3b_mk"]
       ELSE /\ rpc' = [rpc EXCEPT ![c] = "s3b_mk"]
            /\ UNCHANGED <<backup_dir, faults>>
    /\ UNCHANGED <<data_root, DATA_DIR, extract_dir, db_open, todo, rres, zip, before, touched, ncalls>>
    /\ UNCHANGED outsideRestore

\* Step 3b, line 129: os.makedirs(backup_dir) raises when the path exists
\* (another caller made it), and can fail on its own.
RestoreMakeBackup(c) ==
    /\ rpc[c] = "s3b_mk"
    /\ \E fail \in MayFail :
         /\ faults' = faults + Cost(fail)
         /\ IF fail \/ Exists(backup_dir)
            THEN /\ Raise(c)
                 /\ backup_dir' = backup_dir
            ELSE /\ rpc' = [rpc EXCEPT ![c] = "s3c_ls"]
                 /\ backup_dir' = NewDir(EmptyDir)
    /\ UNCHANGED <<data_root, DATA_DIR, extract_dir, db_open, todo, rres, zip, before, touched, ncalls>>
    /\ UNCHANGED outsideRestore

\* A variant of line 133 that lists the new, empty backup directory
\* instead of DATA_DIR.
CurrentDataFiles_OfBackup(d) == {}

\* Line 133: current_data_files = os.listdir(DATA_DIR).
CurrentDataFiles(d) == Listing(d)

RestoreListData(c) ==
    /\ rpc[c] = "s3c_ls"
    /\ todo' = [todo EXCEPT ![c] = CurrentDataFiles(DATA_DIR)]
    /\ rpc' = [rpc EXCEPT ![c] = "s3c"]
    /\ UNCHANGED <<fsVars, rres, zip, before, touched, ncalls, faults>>
    /\ UNCHANGED outsideRestore

\* shutil.move(src_dir/n, dst) for a file n holding b, dst a path that is
\* meant to be a directory: <<raised, dst afterwards>>. Into a directory
\* the file keeps its name and the move raises when that name is taken;
\* onto a missing path or a regular file, os.rename puts the file at the
\* path itself.
MoveInto(n, b, dst) ==
    CASE dst.kind = "dir" ->
           IF dst.files[n] # Absent
           THEN <<TRUE, dst>>
           ELSE <<FALSE, NewDir([dst.files EXCEPT ![n] = b])>>
      [] OTHER -> <<FALSE, AsFile(b)>>

\* A variant of step 3c that renames the live directory to the backup
\* path and makes a new data directory.
RestoreMoveOut_RenameRoot(c) ==
    /\ rpc[c] = "s3c"
    /\ backup_dir' = NewDir(DATA_DIR)
    /\ DATA_DIR' = EmptyDir
    /\ data_root' = "made_by_restore"
    /\ todo' = [todo EXCEPT ![c] = {}]
    /\ touched' = [touched EXCEPT ![c] = TRUE]
    /\ rpc' = [rpc EXCEPT ![c] = "s3d_ls"]
    /\ UNCHANGED <<extract_dir, db_open, rres, zip, before, ncalls, faults>>
    /\ UNCHANGED outsideRestore

\* Step 3c, lines 134-135: move every listed entry of DATA_DIR into the
\* backup directory, one entry per step. The path given to shutil.move is
\* the entry's, so the directory itself stays where it is (and so in 3d,
\* 4a and 4b).
RestoreMoveOut(c) ==
    /\ rpc[c] = "s3c"
    /\ IF todo[c] = {}
       THEN /\ rpc' = [rpc EXCEPT ![c] = "s3d_ls"]
            /\ UNCHANGED <<data_root, DATA_DIR, backup_dir, todo, touched, faults>>
       ELSE \E n \in todo[c], fail \in MayFail :
              LET m == MoveInto(n, DATA_DIR[n], backup_dir) IN
              /\ faults' = faults + Cost(fail)
              /\ IF fail \/ DATA_DIR[n] = Absent \/ m[1]
                 THEN /\ Raise(c)
                      /\ UNCHANGED <<data_root, DATA_DIR, backup_dir, todo, touched>>
                 ELSE /\ DATA_DIR' = [DATA_DIR EXCEPT ![n] = Absent]
                      /\ data_root' = data_root
                      /\ backup_dir' = m[2]
                      /\ todo' = [todo EXCEPT ![c] = @ \ {n}]
                      /\ touched' = [touched EXCEPT ![c] = TRUE]
                      /\ rpc' = rpc
    /\ UNCHANGED <<extract_dir, db_open, rres, zip, before, ncalls>>
    /\ UNCHANGED outsideRestore

\* Line 138: os.listdir(extract_dir).
RestoreListNew(c) ==
    /\ rpc[c] = "s3d_ls"
    /\ todo' = [todo EXCEPT ![c] = Listing(extract_dir[c].files)]
    /\ rpc' = [rpc EXCEPT ![c] = "s3d"]
    /\ UNCHANGED <<fsVars, rres, zip, before, touched, ncalls, faults>>
    /\ UNCHANGED outsideRestore

\* Step 3d, lines 138-139: move every staged entry into DATA_DIR. The move
\* raises when DATA_DIR already holds the name.
RestoreMoveIn(c) ==
    /\ rpc[c] = "s3d"
    /\ IF todo[c] = {}
       THEN /\ rpc' = [rpc EXCEPT ![c] = "s3e"]
            /\ UNCHANGED <<data_root, DATA_DIR, extract_dir, todo, touched, faults>>
       ELSE \E n \in todo[c], fail \in MayFail :
              /\ faults' = faults + Cost(fail)
              /\ IF fail \/ DATA_DIR[n] # Absent
                 THEN /\ Raise(c)
                      /\ UNCHANGED <<data_root, DATA_DIR, extract_dir, todo, touched>>
                 ELSE /\ DATA_DIR' = [DATA_DIR EXCEPT ![n] = extract_dir[c].files[n]]
                      /\ data_root' = data_root
                      /\ extract_dir' = [extract_dir EXCEPT ![c] =
                                           NewDir([@.files EXCEPT ![n] = Absent])]
                      /\ todo' = [todo EXCEPT ![c] = @ \ {n}]
                      /\ touched' = [touched EXCEPT ![c] = TRUE]
                      /\ rpc' = rpc
    /\ UNCHANGED <<backup_dir, db_open, rres, zip, before, ncalls>>
    /\ UNCHANGED outsideRestore

\* Step 3e, lines 142-145: remove the backup and return success; the
\* finally block runs before the caller sees the result.
RestoreDropBackup(c) ==
    /\ rpc[c] = "s3e"
    /\ IF Exists(backup_dir)
       THEN \E o \in Rmtree(backup_dir) :
              /\ backup_dir' = o[2]
              /\ faults' = faults + Cost(o[3])
              /\ IF o[1]
                 THEN Raise(c) /\ rres' = rres
                 ELSE /\ rpc' = [rpc EXCEPT ![c] = "fin_extract"]
                      /\ rres' = [rres EXCEPT ![c] = "ok"]
       ELSE /\ rpc' = [rpc EXCEPT ![c] = "fin_extract"]
            /\ rres' = [rres EXCEPT ![c] = "ok"]
            /\ UNCHANGED <<backup_dir, faults>>
    /\ UNCHANGED <<data_root, DATA_DIR, extract_dir, db_open, todo, zip, before, touched, ncalls>>
    /\ UNCHANGED outsideRestore

\* Step 4a, line 151: os.listdir(DATA_DIR) in the recovery.
RecoverListData(c) ==
    /\ rpc[c] = "r4a_ls"
    /\ todo' = [todo EXCEPT ![c] = Listing(DATA_DIR)]
    /\ rpc' = [rpc EXCEPT ![c] = "r4a"]
    /\ UNCHANGED <<fsVars, rres, zip, before, touched, ncalls, faults>>
    /\ UNCHANGED outsideRestore

\* Step 4a, lines 151-156: delete every listed entry of DATA_DIR.
RecoverClearData(c) ==
    /\ rpc[c] = "r4a"
    /\ IF todo[c] = {}
       THEN /\ rpc' = [rpc EXCEPT ![c] = "r4b"]
            /\ UNCHANGED <<data_root, DATA_DIR, todo, touched, rres, faults>>
       ELSE \E n \in todo[c], fail \in MayFail :
              /\ faults' = faults + Cost(fail)
              /\ IF fail \/ DATA_DIR[n] = Absent
                 THEN /\ Critical(c)
                      /\ UNCHANGED <<data_root, DATA_DIR, todo, touched>>
                 ELSE /\ DATA_DIR' = [DATA_DIR EXCEPT ![n] = Absent]
                      /\ data_root' = data_root
                      /\ todo' = [todo EXCEPT ![c] = @ \ {n}]
                      /\ touched' = [touched EXCEPT ![c] = TRUE]
                      /\ UNCHANGED <<rpc, rres>>
    /\ UNCHANGED <<backup_dir, extract_dir, db_open, zip, before, ncalls>>
    /\ UNCHANGED outsideRestore

\* Step 4b, lines 159-160: only when the backup path exists, list it. With
\* no backup path the function goes on to line 167.
RecoverListBackup(c) ==
    /\ rpc[c] = "r4b"
    /\ CASE backup_dir.kind = "missing" ->
              /\ rpc' = [rpc EXCEPT ![c] = "fin_extract"]
              /\ rres' = [rres EXCEPT ![c] = "preserved"]
              /\ todo' = todo
         [] backup_dir.kind = "file" ->
              /\ Critical(c)
              /\ todo' = todo
         [] OTHER ->
              /\ rpc' = [rpc EXCEPT ![c] = "r4b_mv"]
              /\ todo' = [todo EXCEPT ![c] = Listing(backup_dir.files)]
              /\ rres' = rres
    /\ UNCHANGED <<fsVars, zip, before, touched, ncalls, faults>>
    /\ UNCHANGED outsideRestore

\* Step 4b, lines 160-161: move every listed backup entry back.
RecoverMoveBack(c) ==
    /\ rpc[c] = "r4b_mv"
    /\ IF todo[c] = {}
       THEN /\ rpc' = [rpc EXCEPT ![c] = "r4b_rm"]
            /\ UNCHANGED <<data_root, DATA_DIR, backup_dir, todo, touched, rres, faults>>
       ELSE \E n \in todo[c], fail \in MayFail :
              /\ faults' = faults + Cost(fail)
              /\ IF \/ fail
                    \/ backup_dir.kind # "dir"
                    \/ backup_dir.files[n] = Absent
                    \/ DATA_DIR[n] # Absent
                 THEN /\ Critical(c)
                      /\ UNCHANGED <<data_root, DATA_DIR, backup_dir, todo, touched>>
                 ELSE /\ DATA_DIR' = [DATA_DIR EXCEPT ![n] = backup_dir.files[n]]
                      /\ data_root' = data_root
                      /\ backup_dir' = NewDir([backup_dir.files EXCEPT ![n] = Absent])
                      /\ todo' = [todo EXCEPT ![c] = @ \ {n}]
                      /\ touched' = [touched EXCEPT ![c] = TRUE]
                      /\ UNCHANGED <<rpc, rres>>
    /\ UNCHANGED <<extract_dir, db_open, zip, before, ncalls>>
    /\ UNCHANGED outsideRestore

\* Step 4b, line 162, then line 167: remove the backup directory and
\* return the ordinary failure.
RecoverDropBackup(c) ==
    /\ rpc[c] = "r4b_rm"
    /\ \E o \in Rmtree(backup_dir) :
         /\ backup_dir' = o[2]
         /\ faults' = faults + Cost(o[3])
         /\ IF o[1]
            THEN Critical(c)
            ELSE /\ rpc' = [rpc EXCEPT ![c] = "fin_extract"]
                 /\ rres' = [rres EXCEPT ![c] = "preserved"]
    /\ UNCHANGED <<data_root, DATA_DIR, extract_dir, db_open, todo, zip, before, touched, ncalls>>
    /\ UNCHANGED outsideRestore

\* The finally block, lines 172-173: remove the staging directory. An
\* rmtree that raises leaves the function with its exception instead of
\* the pending return, and lines 176-178 do not run.
RestoreFinalExtract(c) ==
    /\ rpc[c] = "fin_extract"
    /\ IF Exists(extract_dir[c])
       THEN \E o \in Rmtree(extract_dir[c]) :
              /\ extract_dir' = [extract_dir EXCEPT ![c] = o[2]]
              /\ faults' = faults + Cost(o[3])
              /\ rpc' = [rpc EXCEPT ![c] = IF o[1] THEN "ret" ELSE "fin_backup"]
              /\ rres' = IF o[1] THEN [rres EXCEPT ![c] = "raised"] ELSE rres
       ELSE /\ rpc' = [rpc EXCEPT ![c] = "fin_backup"]
            /\ UNCHANGED <<extract_dir, faults, rres>>
    /\ UNCHANGED <<data_root, DATA_DIR, backup_dir, db_open, todo, zip, before, touched, ncalls>>
    /\ UNCHANGED outsideRestore

\* The finally block, lines 176-178: remove a leftover backup directory.
\* An exception here leaves the function instead of the pending return.
RestoreFinalBackup(c) ==
    /\ rpc[c] = "fin_backup"
    /\ rpc' = [rpc EXCEPT ![c] = "ret"]
    /\ IF Exists(backup_dir)
       THEN \E o \in Rmtree(backup_dir) :
              /\ backup_dir' = o[2]
              /\ faults' = faults + Cost(o[3])
              /\ rres' = IF o[1] THEN [rres EXCEPT ![c] = "raised"] ELSE rres
       ELSE UNCHANGED <<backup_dir, faults, rres>>
    /\ UNCHANGED <<data_root, DATA_DIR, extract_dir, db_open, todo, zip, before, touched, ncalls>>
    /\ UNCHANGED outsideRestore

\* One step of restore_data_from_zip, lines 97-178.
RestoreStep(c) ==
    \/ RestoreExtract(c)
    \/ RestoreCloseDb(c)
    \/ RestoreCleanBackup(c)
    \/ RestoreMakeBackup(c)
    \/ RestoreListData(c)
    \/ RestoreMoveOut(c)
    \/ RestoreListNew(c)
    \/ RestoreMoveIn(c)
    \/ RestoreDropBackup(c)
    \/ RecoverListData(c)
    \/ RecoverClearData(c)
    \/ RecoverListBackup(c)
    \/ RecoverMoveBack(c)
    \/ RecoverDropBackup(c)
    \/ RestoreFinalExtract(c)
    \/ RestoreFinalBackup(c)

(***************************************************************************)
(* POST /import-data                                                       *)
(***************************************************************************)

\* What a request uploads: the first any zip, the second an archive that
\* GET /export-data made.
Uploads(c) == IF c = "i1" THEN Zips ELSE FetchZips

\* Lines 231-244: a request without a file, or with a name that does not
\* end in .zip, is answered at once; otherwise restore is called with the
\* upload.
ImportData(c) ==
    /\ rpc[c] = "idle"
    /\ \E named \in BOOLEAN, z \in Uploads(c) :
         IF named
         THEN /\ RestoreCall(c, z)
              /\ iresp' = [iresp EXCEPT ![c] = "none"]
         ELSE /\ iresp' = [iresp EXCEPT ![c] = "error"]
              /\ UNCHANGED <<fsVars, rVars>>
    /\ UNCHANGED <<pullVars, elsewhere>>

\* Lines 244-253: flash the message under 'success' or 'error' and
\* redirect. An exception out of restore is the request's 500.
ImportDataReturn(c) ==
    /\ rpc[c] = "ret"
    /\ rpc' = [rpc EXCEPT ![c] = "idle"]
    /\ iresp' = [iresp EXCEPT ![c] =
                   CASE rres[c] = "ok" -> "success"
                     [] rres[c] = "raised" -> "500"
                     [] OTHER -> "error"]
    /\ todo' = [todo EXCEPT ![c] = {}]
    /\ rres' = [rres EXCEPT ![c] = "none"]
    /\ zip' = [zip EXCEPT ![c] = NoZip]
    /\ before' = [before EXCEPT ![c] = EmptyDir]
    /\ touched' = [touched EXCEPT ![c] = FALSE]
    /\ UNCHANGED <<fsVars, ncalls, faults, pullVars, elsewhere>>

(***************************************************************************)
(* POST /start-pull/<instance_id> and _run_pull_task                       *)
(***************************************************************************)

\* The positions of a thread from Thread.start() up to the write of its
\* terminal status.
InFlight == {"lookup", "w_attempt", "fetch", "w_saving", "tmpfile",
             "w_restoring", "restore", "w_success", "x_net", "x_other"}

\* A variant of the lock that excludes nobody, as if every request made a
\* lock of its own.
Acquire_NoExclusion(r) == pull_lock' = r

\* pull_lock.acquire(), the entry of "with pull_lock:".
Acquire(r) == pull_lock = "free" /\ pull_lock' = r

\* Line 468: the request takes the lock. A request whose earlier thread is
\* still alive is not modelled (one thread per request name).
StartPullLock(r) ==
    /\ qpc[r] = "idle"
    /\ tpc[r] = "dead"
    /\ Acquire(r)
    /\ qpc' = [qpc EXCEPT ![r] = "locked"]
    /\ qresp' = [qresp EXCEPT ![r] = "none"]
    /\ UNCHANGED <<pull_status, tpc, terr, tmp_zip_path, restoreVars, elsewhere>>

\* A variant of lines 470-473 that writes the initializing status before it
\* looks at the old one.
StartPullCheck_WriteFirst(r) ==
    /\ qpc[r] = "locked"
    /\ pull_status' = [status |-> "running", message |-> Msg("Initializing pull", "")]
    /\ IF pull_status.status = "running"
       THEN /\ qresp' = [qresp EXCEPT ![r] = "rejected"]
            /\ qpc' = [qpc EXCEPT ![r] = "idle"]
            /\ pull_lock' = "free"
       ELSE /\ qpc' = [qpc EXCEPT ![r] = "accepted"]
            /\ UNCHANGED <<qresp, pull_lock>>
    /\ UNCHANGED <<tpc, terr, tmp_zip_path, restoreVars, elsewhere>>

\* Lines 470-473, inside the lock: a running pull makes the request flash
\* a warning and return (leaving the with block releases the lock);
\* otherwise the request goes on to line 477.
StartPullCheck(r) ==
    /\ qpc[r] = "locked"
    /\ IF pull_status.status = "running"
       THEN /\ qresp' = [qresp EXCEPT ![r] = "rejected"]
            /\ qpc' = [qpc EXCEPT ![r] = "idle"]
            /\ pull_lock' = "free"
       ELSE /\ qpc' = [qpc EXCEPT ![r] = "accepted"]
            /\ UNCHANGED <<qresp, pull_lock>>
    /\ UNCHANGED <<pull_status, tpc, terr, tmp_zip_path, restoreVars, elsewhere>>

\* Lines 477-482, still inside the lock: the status is set to running and
\* the thread is started.
StartPullSet(r) ==
    /\ qpc[r] = "accepted"
    /\ pull_status' = [status |-> "running",
                       message |-> Msg("Initializing pull", "")]
    /\ tpc' = [tpc EXCEPT ![r] = "lookup"]
    /\ qpc' = [qpc EXCEPT ![r] = "started"]
    /\ UNCHANGED <<qresp, pull_lock, terr, tmp_zip_path, restoreVars, elsewhere>>

\* Lines 482-485: the with block ends and the request redirects.
StartPullReturn(r) ==
    /\ qpc[r] = "started"
    /\ pull_lock' = "free"
    /\ qpc' = [qpc EXCEPT ![r] = "idle"]
    /\ qresp' = [qresp EXCEPT ![r] = "accepted"]
    /\ UNCHANGED <<pull_status, tpc, terr, tmp_zip_path, restoreVars, elsewhere>>

\* "with pull_lock: pull_status = {...}" in the thread: one assignment
\* under the lock.
WriteStatus(st, text, detail) ==
    /\ pull_lock = "free"
    /\ pull_status' = [status |-> st, message |-> Msg(text, detail)]
    /\ UNCHANGED pull_lock

\* The thread goes to "except Exception" with exception e.
TaskRaise(r, e) ==
    /\ tpc' = [tpc EXCEPT ![r] = "x_other"]
    /\ terr' = [terr EXCEPT ![r] = e]

\* Line 405: db.get_or_404(Instance, instance_id). The query opens a
\* connection; sqlite creates database.db when the file is not there, and
\* the query then fails. Which rows the file holds is not tracked: the
\* instance is found or not.
TaskLookup(r) ==
    /\ tpc[r] = "lookup"
    /\ db_open' = TRUE
    /\ data_root' = data_root
    /\ IF DATA_DIR["db"] = Absent
       THEN /\ \E b \in Content : DATA_DIR' = [DATA_DIR EXCEPT !["db"] = b]
            /\ TaskRaise(r, "db")
       ELSE /\ DATA_DIR' = DATA_DIR
            /\ \E found \in BOOLEAN :
                 IF found
                 THEN tpc' = [tpc EXCEPT ![r] = "w_attempt"] /\ terr' = terr
                 ELSE TaskRaise(r, "not_found")
    /\ UNCHANGED <<backup_dir, extract_dir, rVars, iresp>>
    /\ UNCHANGED <<pull_status, pull_lock, qpc, qresp, tmp_zip_path, elsewhere>>

\* A variant of lines 410-411 that takes the lock for the status and keeps
\* it while it fetches.
TaskWriteAttempt_HoldLock(r) ==
    /\ tpc[r] = "w_attempt"
    /\ pull_lock = "free"
    /\ pull_lock' = r
    /\ pull_status' = [status |-> "running",
                       message |-> Msg("Attempting to pull", "")]
    /\ tpc' = [tpc EXCEPT ![r] = "fetch"]
    /\ UNCHANGED <<qpc, qresp, terr, tmp_zip_path, restoreVars, elsewhere>>

\* Lines 410-411.
TaskWriteAttempt(r) ==
    /\ tpc[r] = "w_attempt"
    /\ WriteStatus("running", "Attempting to pull", "")
    /\ tpc' = [tpc EXCEPT ![r] = "fetch"]
    /\ UNCHANGED <<qpc, qresp, terr, tmp_zip_path, restoreVars, elsewhere>>

\* A variant of lines 413-417 without the Content-Type test: a response of
\* another type is saved like a zip, and its body is no archive.
TaskFetch_NoTypeCheck(r) ==
    /\ tpc[r] = "fetch"
    /\ \E o \in {"zip", "request_exception", "not_zip"} :
         CASE o = "zip" ->
                /\ \E z \in FetchZips : zip' = [zip EXCEPT ![r] = z]
                /\ tpc' = [tpc EXCEPT ![r] = "w_saving"]
                /\ terr' = terr
           [] o = "request_exception" ->
                /\ tpc' = [tpc EXCEPT ![r] = "x_net"]
                /\ terr' = [terr EXCEPT ![r] = "request"]
                /\ zip' = zip
           [] OTHER ->
                /\ zip' = [zip EXCEPT ![r] = NoZip]
                /\ tpc' = [tpc EXCEPT ![r] = "w_saving"]
                /\ terr' = terr
    /\ UNCHANGED <<fsVars, rpc, todo, rres, before, touched, ncalls, faults, iresp>>
    /\ UNCHANGED <<pull_status, pull_lock, qpc, qresp, tmp_zip_path, elsewhere>>

\* Lines 413-417: requests.get with timeout=60, raise_for_status, and the
\* Content-Type test. A connection error, a timeout and a non-2xx status
\* are RequestExceptions; a wrong content type is a plain Exception.
TaskFetch(r) ==
    /\ tpc[r] = "fetch"
    /\ \E o \in {"zip", "request_exception", "not_zip"} :
         CASE o = "zip" ->
                /\ \E z \in FetchZips : zip' = [zip EXCEPT ![r] = z]
                /\ tpc' = [tpc EXCEPT ![r] = "w_saving"]
                /\ terr' = terr
           [] o = "request_exception" ->
                /\ tpc' = [tpc EXCEPT ![r] = "x_net"]
                /\ terr' = [terr EXCEPT ![r] = "request"]
                /\ zip' = zip
           [] OTHER ->
                /\ TaskRaise(r, "not_zip")
                /\ zip' = zip
    /\ UNCHANGED <<fsVars, rpc, todo, rres, before, touched, ncalls, faults, iresp>>
    /\ UNCHANGED <<pull_status, pull_lock, qpc, qresp, tmp_zip_path, elsewhere>>

\* Lines 420-421.
TaskWriteSaving(r) ==
    /\ tpc[r] = "w_saving"
    /\ WriteStatus("running", "Download complete", "")
    /\ tpc' = [tpc EXCEPT ![r] = "tmpfile"]
    /\ UNCHANGED <<qpc, qresp, terr, tmp_zip_path, restoreVars, elsewhere>>

\* Lines 423-425: the body goes to a NamedTemporaryFile(delete=False);
\* tmp_zip_path is set after the write.
TaskSaveTemp(r) ==
    /\ tpc[r] = "tmpfile"
    /\ \E fail \in BOOLEAN :
         IF fail
         THEN TaskRaise(r, "tmpfile") /\ tmp_zip_path' = tmp_zip_path
         ELSE /\ tpc' = [tpc EXCEPT ![r] = "w_restoring"]
              /\ tmp_zip_path' = [tmp_zip_path EXCEPT ![r] = TRUE]
              /\ terr' = terr
    /\ UNCHANGED <<pull_status, pull_lock, qpc, qresp, restoreVars, elsewhere>>

\* Lines 428-429.
TaskWriteRestoring(r) ==
    /\ tpc[r] = "w_restoring"
    /\ WriteStatus("running", "Restoring data", "")
    /\ tpc' = [tpc EXCEPT ![r] = "restore"]
    /\ UNCHANGED <<qpc, qresp, terr, tmp_zip_path, restoreVars, elsewhere>>

\* Line 434: restore_data_from_zip(tmp_zip_path, db) is called.
TaskRestoreCall(r) ==
    /\ tpc[r] = "restore"
    /\ RestoreCall(r, zip[r])
    /\ UNCHANGED outsideRestore

\* Lines 434-445: the call returns. False is raised as Exception(message);
\* an exception out of restore's finally block arrives as it is.
TaskRestoreReturn(r) ==
    /\ tpc[r] = "restore"
    /\ rpc[r] = "ret"
    /\ rpc' = [rpc EXCEPT ![r] = "idle"]
    /\ IF rres[r] = "ok"
       THEN tpc' = [tpc EXCEPT ![r] = "w_success"] /\ terr' = terr
       ELSE TaskRaise(r, rres[r])
    /\ todo' = [todo EXCEPT ![r] = {}]
    /\ rres' = [rres EXCEPT ![r] = "none"]
    /\ zip' = [zip EXCEPT ![r] = NoZip]
    /\ before' = [before EXCEPT ![r] = EmptyDir]
    /\ touched' = [touched EXCEPT ![r] = FALSE]
    /\ UNCHANGED <<fsVars, ncalls, faults, iresp>>
    /\ UNCHANGED <<pull_status, pull_lock, qpc, qresp, tmp_zip_path, elsewhere>>

\* A variant of lines 439-443 that puts the slot back to idle when the
\* pull is over.
TaskWriteSuccess_Idle(r) ==
    /\ tpc[r] = "w_success"
    /\ WriteStatus("idle", "", "")
    /\ tpc' = [tpc EXCEPT ![r] = "finally"]
    /\ UNCHANGED <<qpc, qresp, terr, tmp_zip_path, restoreVars, elsewhere>>

\* Lines 439-443.
TaskWriteSuccess(r) ==
    /\ tpc[r] = "w_success"
    /\ WriteStatus("success", "Data restored successfully", "restart")
    /\ tpc' = [tpc EXCEPT ![r] = "finally"]
    /\ UNCHANGED <<qpc, qresp, terr, tmp_zip_path, restoreVars, elsewhere>>

\* Lines 447-450: except requests.exceptions.RequestException.
TaskWriteNetError(r) ==
    /\ tpc[r] = "x_net"
    /\ WriteStatus("error", "Failed to connect or download", terr[r])
    /\ tpc' = [tpc EXCEPT ![r] = "finally"]
    /\ UNCHANGED <<qpc, qresp, terr, tmp_zip_path, restoreVars, elsewhere>>

\* A variant of lines 451-453 whose handler swallows the exception and
\* leaves the status as it is.
TaskWriteError_Silent(r) ==
    /\ tpc[r] = "x_other"
    /\ tpc' = [tpc EXCEPT ![r] = "finally"]
    /\ UNCHANGED <<pull_status, pull_lock>>
    /\ UNCHANGED <<qpc, qresp, terr, tmp_zip_path, restoreVars, elsewhere>>

\* Lines 451-453: except Exception.
TaskWriteError(r) ==
    /\ tpc[r] = "x_other"
    /\ WriteStatus("error", "An unexpected error occurred", terr[r])
    /\ tpc' = [tpc EXCEPT ![r] = "finally"]
    /\ UNCHANGED <<qpc, qresp, terr, tmp_zip_path, restoreVars, elsewhere>>

\* Lines 454-457: the temporary zip is removed and the thread ends; its
\* response goes with it.
TaskFinally(r) ==
    /\ tpc[r] = "finally"
    /\ tpc' = [tpc EXCEPT ![r] = "dead"]
    /\ tmp_zip_path' = [tmp_zip_path EXCEPT ![r] = FALSE]
    /\ terr' = [terr EXCEPT ![r] = "none"]
    /\ zip' = [zip EXCEPT ![r] = NoZip]
    /\ UNCHANGED <<fsVars, rpc, todo, rres, before, touched, ncalls, faults, iresp>>
    /\ UNCHANGED <<pull_status, pull_lock, qpc, qresp, elsewhere>>

\* api_pull_status, lines 496-505: under the lock, a copy of the dict that
\* pull_status names at that moment; the copy is what jsonify returns.
ApiPullStatus ==
    /\ pull_lock = "free"
    /\ status_copy' = pull_status
    /\ UNCHANGED <<restoreVars, pullVars, storeVars, roomVars>>

\* One step of start_pull, lines 462-485.
StartPullStep(r) ==
    \/ StartPullLock(r)
    \/ StartPullCheck(r)
    \/ StartPullSet(r)
    \/ StartPullReturn(r)

\* One step of _run_pull_task, lines 394-457, the restore it calls
\* included.
TaskStep(r) ==
    \/ TaskLookup(r)
    \/ TaskWriteAttempt(r)
    \/ TaskFetch(r)
    \/ TaskWriteSaving(r)
    \/ TaskSaveTemp(r)
    \/ TaskWriteRestoring(r)
    \/ TaskRestoreCall(r)
    \/ RestoreStep(r)
    \/ TaskRestoreReturn(r)
    \/ TaskWriteSuccess(r)
    \/ TaskWriteNetError(r)
    \/ TaskWriteError(r)
    \/ TaskFinally(r)

(***************************************************************************)
(* The document store: drawings and instances.                             *)
(***************************************************************************)

\* The keys a drawing's data or a request's JSON can hold: the five that
\* create_excalidraw writes, and one that it does not.
AllKeys == {"name", "directory", "elements", "appState", "files", "other"}

\* Lines 316-325: the keys save_excalidraw_data copies from the request.
Mergeable == {"elements", "appState", "files", "name"}

\* The values of a key: what a drawing is created with, and what a later
\* request sends.
OldVal == "u"

NewVal == "v"

\* A dict over AllKeys: for each key its value, or Absent.
Dicts == [AllKeys -> {OldVal, NewVal, Absent}]

\* What a client sends as JSON: any keys, each with the new value.
JsonBodies == [AllKeys -> {NewVal, Absent}]

\* Line 273: data={'name': name, 'directory': '/', 'elements': [],
\* 'appState': {}, 'files': {}}.
NewDrawing(name) ==
    [k \in AllKeys |-> CASE k = "name" -> name
                         [] k = "other" -> Absent
                         [] OTHER -> OldVal]

\* No row under an id.
NoRow == [row |-> "none"]

\* A run adds at most this many instances.
MaxInstances == 2

\* The characters of a URL, and how long a submitted URL can be.
Chars == {"a", "/"}

MaxUrlLen == 2

RECURSIVE SeqsUpTo(_)
SeqsUpTo(n) ==
    IF n = 0
    THEN {<<>>}
    ELSE LET shorter == SeqsUpTo(n - 1) IN
         shorter \cup {Append(u, ch) : u \in {v \in shorter : Len(v) = n - 1},
                                       ch \in Chars}

\* The URLs a form can submit; the empty one is a missing field.
Urls == SeqsUpTo(MaxUrlLen)

\* Lines 354 and 593: url.rstrip('/') removes every trailing slash.
RECURSIVE Rstrip(_)
Rstrip(u) ==
    IF u # <<>> /\ u[Len(u)] = "/"
    THEN Rstrip(SubSeq(u, 1, Len(u) - 1))
    ELSE u

\* The requests to the store's routes.
StoreReqs == {"s1", "s2"}

\* The ids of the drawings.
DrawingIds == {1, 2}

NoLocals == [id |-> 0, json |-> [k \in AllKeys |-> Absent],
             data |-> [k \in AllKeys |-> Absent], name |-> "", url |-> <<>>]

\* nodes.json lists at most this many nodes.
MaxNodes == 2

\* The startup block runs at most this many times.
MaxBoots == 2

\* The url of a node of nodes.json: a URL, the same URL with a trailing
\* slash, or none.
NodeUrls == {<<"a">>, <<"a", "/">>, <<>>}

\* The nodes nodes.json can list.
Nodes == {[name |-> "n", url |-> u] : u \in NodeUrls}

\* nodes.json: not there, or a list of up to MaxNodes nodes.
NodeFiles ==
    {[exists |-> FALSE, nodes |-> <<>>]} \cup
    {[exists |-> TRUE, nodes |-> ns] :
        ns \in UNION {[1 .. n -> Nodes] : n \in 0 .. MaxNodes}}

\* Line 618: db.create_all() has made the two tables, and they are empty.
InitTables ==
    /\ drawings = [d \in DrawingIds |-> NoRow]
    /\ instances = <<>>
    /\ next_id = 0
    /\ spc = [q \in StoreReqs |-> "idle"]
    /\ sloc = [q \in StoreReqs |-> NoLocals]
    /\ sresp = [q \in StoreReqs |-> "none"]
    /\ boots = 0
    /\ seed_out = "none"

\* A deployment without nodes.json.
InitStore ==
    /\ InitTables
    /\ nodes_file = [exists |-> FALSE, nodes |-> <<>>]

\* The request is answered: its locals are gone.
Answer(q, what) ==
    /\ spc' = [spc EXCEPT ![q] = "idle"]
    /\ sloc' = [sloc EXCEPT ![q] = NoLocals]
    /\ sresp' = [sresp EXCEPT ![q] = what]

\* create_excalidraw, lines 265-281: a new row under a fresh id, or a
\* rollback when the commit fails.
CreateExcalidraw(q) ==
    /\ spc[q] = "idle"
    /\ \E d \in DrawingIds, name \in {OldVal, NewVal}, fail \in BOOLEAN :
         /\ drawings[d] = NoRow
         /\ \A e \in DrawingIds : e < d => drawings[e] # NoRow
         /\ IF fail
            THEN /\ Answer(q, "error")
                 /\ drawings' = drawings
            ELSE /\ Answer(q, "created")
                 /\ drawings' = [drawings EXCEPT ![d] = NewDrawing(name)]
    /\ UNCHANGED <<instances, next_id>>
    /\ UNCHANGED outsideStore

\* A variant of the merge that stores the request's JSON as the new data.
Merge_Replace(data, json) == json

\* Lines 313-327: a copy of the stored data, with the keys elements,
\* appState, files and name taken from the request when it has them.
Merge(data, json) ==
    [k \in AllKeys |->
        IF k \in Mergeable /\ json[k] # Absent THEN json[k] ELSE data[k]]

\* save_excalidraw_data, line 306 and 308: db.get_or_404 loads the row, or
\* the request is answered 404.
SaveLoad(q) ==
    /\ spc[q] = "idle"
    /\ \E d \in DrawingIds, j \in JsonBodies :
         IF drawings[d] = NoRow
         THEN Answer(q, "404")
         ELSE /\ spc' = [spc EXCEPT ![q] = "save"]
              /\ sloc' = [sloc EXCEPT ![q] =
                            [NoLocals EXCEPT !.id = d, !.json = j,
                                             !.data = drawings[d]]]
              /\ sresp' = [sresp EXCEPT ![q] = "none"]
    /\ UNCHANGED <<drawings, instances, next_id>>
    /\ UNCHANGED outsideStore

\* save_excalidraw_data, lines 313-338: merge into the loaded data, assign
\* and commit; an exception rolls back and answers 500.
SaveCommit(q) ==
    /\ spc[q] = "save"
    /\ \E fail \in BOOLEAN :
         IF fail
         THEN /\ Answer(q, "500")
              /\ drawings' = drawings
         ELSE /\ Answer(q, "success")
              /\ drawings' = [drawings EXCEPT ![sloc[q].id] =
                                Merge(sloc[q].data, sloc[q].json)]
    /\ UNCHANGED <<instances, next_id>>
    /\ UNCHANGED outsideStore

\* Lines 354-364: the submitted URL is stripped of trailing slashes and
\* compared with the url of every row.
Duplicate(raw, rows) == \E i \in DOMAIN rows : rows[i].url = Rstrip(raw)

\* add_instance, lines 346-364: the form is validated, the URL stripped,
\* all rows are read and scanned for the URL.
AddInstanceCheck(q) ==
    /\ spc[q] = "idle"
    /\ next_id + Cardinality({p \in StoreReqs : spc[p] = "add"}) < MaxInstances
    /\ \E name \in {"", "n"}, raw \in Urls :
         IF name = "" \/ raw = <<>>
         THEN Answer(q, "invalid")
         ELSE IF Duplicate(raw, instances)
         THEN Answer(q, "conflict")
         ELSE /\ spc' = [spc EXCEPT ![q] = "add"]
              /\ sloc' = [sloc EXCEPT ![q] =
                            [NoLocals EXCEPT !.name = name, !.url = raw]]
              /\ sresp' = [sresp EXCEPT ![q] = "none"]
    /\ UNCHANGED <<drawings, instances, next_id>>
    /\ UNCHANGED outsideStore

\* add_instance, lines 367-375: the row is inserted with the stripped URL
\* under a fresh uuid and committed; an exception rolls back.
AddInstanceCommit(q) ==
    /\ spc[q] = "add"
    /\ \E fail \in BOOLEAN :
         IF fail
         THEN /\ Answer(q, "error")
              /\ UNCHANGED <<instances, next_id>>
         ELSE /\ Answer(q, "added")
              /\ next_id' = next_id + 1
              /\ instances' = Append(instances,
                                [id |-> next_id + 1, name |-> sloc[q].name,
                                 url |-> Rstrip(sloc[q].url)])
    /\ UNCHANGED drawings
    /\ UNCHANGED outsideStore

\* The rows without the one under id.
Without(rows, id) == SelectSeq(rows, LAMBDA row : row.id # id)

\* delete_instance, line 380: db.get_or_404 loads the row, or 404.
DeleteInstanceLoad(q) ==
    /\ spc[q] = "idle"
    /\ \E id \in 1 .. MaxInstances :
         IF \E i \in DOMAIN instances : instances[i].id = id
         THEN /\ spc' = [spc EXCEPT ![q] = "del"]
              /\ sloc' = [sloc EXCEPT ![q] = [NoLocals EXCEPT !.id = id]]
              /\ sresp' = [sresp EXCEPT ![q] = "none"]
         ELSE Answer(q, "404")
    /\ UNCHANGED <<drawings, instances, next_id>>
    /\ UNCHANGED outsideStore

\* delete_instance, lines 381-391: delete and commit; an exception (the
\* row is gone, or the commit fails) rolls back.
DeleteInstanceCommit(q) ==
    /\ spc[q] = "del"
    /\ \E fail \in BOOLEAN :
         IF fail \/ ~\E i \in DOMAIN instances : instances[i].id = sloc[q].id
         THEN /\ Answer(q, "error")
              /\ instances' = instances
         ELSE /\ Answer(q, "deleted")
              /\ instances' = Without(instances, sloc[q].id)
    /\ UNCHANGED <<drawings, next_id>>
    /\ UNCHANGED outsideStore

\* A variant of the emptiness test that finds every table empty.
TableEmpty_Always(rows) == TRUE

\* Line 581: Instance.query.first() is None.
TableEmpty(rows) == rows = <<>>

\* Lines 587-597: the nodes that have a name and a url, as rows with the
\* url stripped, under fresh ids from first on.
SeedRows(nodes, first) ==
    LET valid == SelectSeq(nodes, LAMBDA n : n.name # "" /\ n.url # <<>>) IN
    [i \in 1 .. Len(valid) |->
        [id |-> first + i, name |-> valid[i].name, url |-> Rstrip(valid[i].url)]]

\* seed_nodes, lines 570-611, as the startup block calls it (line 621).
\* The process starts with no request in it. An exception anywhere in the
\* try rolls back.
SeedNodes ==
    /\ boots < MaxBoots
    /\ \A q \in StoreReqs : spc[q] = "idle"
    /\ boots' = boots + 1
    /\ IF ~nodes_file.exists
       THEN /\ seed_out' = "no_file"
            /\ UNCHANGED <<instances, next_id>>
       ELSE \E fail \in BOOLEAN :
              LET rows == SeedRows(nodes_file.nodes, next_id) IN
              IF fail
              THEN /\ seed_out' = "error"
                   /\ UNCHANGED <<instances, next_id>>
              ELSE IF ~TableEmpty(instances)
              THEN /\ seed_out' = "not_empty"
                   /\ UNCHANGED <<instances, next_id>>
              ELSE IF Len(rows) > 0
              THEN /\ seed_out' = "complete"
                   /\ instances' = instances \o rows
                   /\ next_id' = next_id + Len(rows)
              ELSE /\ seed_out' = "no_valid"
                   /\ UNCHANGED <<instances, next_id>>
    /\ UNCHANGED <<drawings, spc, sloc, sresp, nodes_file>>
    /\ UNCHANGED <<restoreVars, pullVars, roomVars, status_copy>>

\* The data of a drawing in an uploaded database.db: any of the five keys
\* can be missing, as in a database of an older shape.
ImportedData == {d \in Dicts : d["other"] = Absent /\ \A k \in AllKeys : d[k] # NewVal}

\* The Instance tables of an uploaded database.db whose rows hold a URL of
\* urls: no row, or one row under an id of its own.
ImportedTables(urls) ==
    {<<>>} \cup
    IF next_id + Cardinality({p \in StoreReqs : spc[p] = "add"}) < MaxInstances
    THEN {<<[id |-> next_id + 1, name |-> "n", url |-> url]>> : url \in urls}
    ELSE {}

\* import_data, lines 228-253, when restore_data_from_zip has moved an
\* uploaded database.db into the data root: the tables are the upload's,
\* whose rows no code of this program has written. The upload's drawing is
\* one of datas and the URL of its instance one of urls.
ImportedDatabase(q, datas, urls) ==
    /\ spc[q] = "idle"
    /\ \E data \in datas, table \in ImportedTables(urls) :
         /\ drawings' = [d \in DrawingIds |-> IF d = 1 THEN data ELSE NoRow]
         /\ instances' = table
         /\ next_id' = next_id + Len(table)
    /\ Answer(q, "imported")
    /\ UNCHANGED outsideStore

\* One step of a request to the drawings' routes.
DrawingStep(q) ==
    \/ ImportedDatabase(q, ImportedData \cup {NoRow}, {})
    \/ CreateExcalidraw(q)
    \/ SaveLoad(q)
    \/ SaveCommit(q)

\* One step of a request to the instances' routes.
InstanceStep(q) ==
    \/ ImportedDatabase(q, {NoRow}, Urls \ {<<>>})
    \/ AddInstanceCheck(q)
    \/ AddInstanceCommit(q)
    \/ DeleteInstanceLoad(q)
    \/ DeleteInstanceCommit(q)

(***************************************************************************)
(* Socket.IO rooms.                                                        *)
(***************************************************************************)

\* The connections, by their request.sid.
Sids == {"A", "B", "C"}

\* The rooms a client can name: str(data['room']).
Rooms == {"5", "6"}

\* The names a client can give in a join.
UserNames == {"ann", "bob"}

\* A run holds at most this many calls of emit.
MaxEvents == 3

\* Line 512: participants = {}; no connection, no room, nothing sent.
InitRooms ==
    /\ conn = [s \in Sids |-> "new"]
    /\ members = [r \in Rooms |-> {}]
    /\ participants = <<>>
    /\ inbox = [s \in Sids |-> <<>>]
    /\ log = <<>>
    /\ arrived = <<>>

\* participants[room], a dict in insertion order: the index of the room's
\* entry, or 0 when room is not in participants.
RoomIndex(room) ==
    IF \E i \in DOMAIN participants : participants[i].room = room
    THEN CHOOSE i \in DOMAIN participants : participants[i].room = room
    ELSE 0

\* users[sid] = name on a dict in insertion order: a key that is present
\* keeps its place.
DictSet(users, sid, name) ==
    IF \E i \in DOMAIN users : users[i].sid = sid
    THEN [i \in DOMAIN users |->
            IF users[i].sid = sid THEN [sid |-> sid, name |-> name] ELSE users[i]]
    ELSE Append(users, [sid |-> sid, name |-> name])

\* users.pop(sid).
DictPop(users, sid) == SelectSeq(users, LAMBDA u : u.sid # sid)

\* list(users.values()).
Values(users) == [i \in DOMAIN users |-> users[i].name]

\* Who an emit to a room reaches: the connections in the room, without the
\* sender when include_self is False.
Recipients(joined, sid, include_self) ==
    IF include_self THEN joined ELSE joined \ {sid}

\* emit(event, data, room=room, include_self=...) in the handler of a
\* message from sid, with the room's membership as it is at the call.
Emit(event, data, room, sid, include_self, joined) ==
    LET msg == [event |-> event, data |-> data, room |-> room,
                from |-> sid, n |-> Len(log) + 1] IN
    /\ inbox' = [t \in Sids |->
                    IF t \in Recipients(joined, sid, include_self)
                    THEN Append(inbox[t], msg)
                    ELSE inbox[t]]
    /\ log' = Append(log, [event |-> event, room |-> room, from |-> sid])

\* A client connects and is given a sid.
Connect(s) ==
    /\ conn[s] = "new"
    /\ conn' = [conn EXCEPT ![s] = "connected"]
    /\ UNCHANGED <<members, participants, inbox, log>>
    /\ UNCHANGED <<arrived, outsideRooms>>

\* on_join, lines 514-527.
OnJoin(s, cap) ==
    /\ conn[s] = "connected"
    /\ Len(log) < cap
    /\ \E room \in Rooms, name \in UserNames :
         LET i == RoomIndex(room)
             users == IF i = 0 THEN <<>> ELSE participants[i].users
             entry == [room |-> room, users |-> DictSet(users, s, name)]
         IN
         /\ members' = [members EXCEPT ![room] = @ \cup {s}]
         /\ participants' = IF i = 0
                            THEN Append(participants, entry)
                            ELSE [participants EXCEPT ![i] = entry]
         /\ Emit("room_users", Values(entry.users), room, s, TRUE,
                 members[room] \cup {s})
    /\ UNCHANGED conn
    /\ UNCHANGED <<arrived, outsideRooms>>

\* The first room of participants that holds sid, or 0.
FirstRoomOf(s) ==
    LET holds == {i \in DOMAIN participants :
                    \E j \in DOMAIN participants[i].users :
                        participants[i].users[j].sid = s}
    IN IF holds = {} THEN 0 ELSE CHOOSE i \in holds : \A k \in holds : i <= k

\* on_disconnect, lines 529-539, and the server's removal of the
\* connection from every room it is in.
OnDisconnect(s, cap) ==
    /\ conn[s] = "connected"
    /\ conn' = [conn EXCEPT ![s] = "gone"]
    /\ members' = [r \in Rooms |-> members[r] \ {s}]
    /\ LET i == FirstRoomOf(s) IN
       IF i = 0
       THEN UNCHANGED <<participants, inbox, log>>
       ELSE LET room == participants[i].room
                users == DictPop(participants[i].users, s)
            IN
            /\ Len(log) < cap
            /\ participants' = [participants EXCEPT ![i].users = users]
            /\ Emit("room_users", Values(users), room, s, TRUE,
                    members[room] \ {s})
    /\ UNCHANGED <<arrived, outsideRooms>>

\* A variant of on_update_scene that emits without include_self=False.
OnUpdateScene_IncludeSelf(s, cap) ==
    /\ conn[s] = "connected"
    /\ Len(log) < cap
    /\ \E room \in Rooms :
         Emit("update_scene", "scene", room, s, TRUE, members[room])
    /\ UNCHANGED <<conn, members, participants>>
    /\ UNCHANGED <<arrived, outsideRooms>>

\* on_update_scene, lines 541-552.
OnUpdateScene(s, cap) ==
    /\ conn[s] = "connected"
    /\ Len(log) < cap
    /\ \E room \in Rooms :
         Emit("update_scene", "scene", room, s, FALSE, members[room])
    /\ UNCHANGED <<conn, members, participants>>
    /\ UNCHANGED <<arrived, outsideRooms>>

\* on_cursor_move, lines 554-565.
OnCursorMove(s, cap) ==
    /\ conn[s] = "connected"
    /\ Len(log) < cap
    /\ \E room \in Rooms :
         Emit("cursor_move", "xy", room, s, FALSE, members[room])
    /\ UNCHANGED <<conn, members, participants>>
    /\ UNCHANGED <<arrived, outsideRooms>>

\* A run holds at most this many events that wait for their handler.
MaxArrivals == 2

\* Lines 541 and 554, @socketio.on(...): the server receives an
\* update_scene or a cursor_move of connection s and starts its handler as
\* a task of its own (SocketIO(app, ...) at line 42 leaves async_handlers
\* at its default); "at" is how many emits were made before, "n" the emit
\* the handler makes, 0 until it runs.
ReceiveEvent(s) ==
    /\ conn[s] = "connected"
    /\ Len(arrived) < MaxArrivals
    /\ \E event \in {"update_scene", "cursor_move"}, room \in Rooms :
         arrived' = Append(arrived, [event |-> event, room |-> room, from |-> s,
                                     at |-> Len(log), n |-> 0])
    /\ UNCHANGED <<conn, members, participants, inbox, log>>
    /\ UNCHANGED outsideRooms

\* The k-th event received waits for a handler of this event.
Waiting(k, event) ==
    /\ k \in DOMAIN arrived
    /\ arrived[k].event = event
    /\ arrived[k].n = 0

\* on_update_scene, lines 541-552, run as the task of the k-th event.
RunUpdateScene(k) ==
    /\ Waiting(k, "update_scene")
    /\ Len(log) < MaxEvents
    /\ Emit("update_scene", "scene", arrived[k].room, arrived[k].from, FALSE,
            members[arrived[k].room])
    /\ arrived' = [arrived EXCEPT ![k].n = Len(log) + 1]
    /\ UNCHANGED <<conn, members, participants>>
    /\ UNCHANGED outsideRooms

\* on_cursor_move, lines 554-565, run as the task of the k-th event.
RunCursorMove(k) ==
    /\ Waiting(k, "cursor_move")
    /\ Len(log) < MaxEvents
    /\ Emit("cursor_move", "xy", arrived[k].room, arrived[k].from, FALSE,
            members[arrived[k].room])
    /\ arrived' = [arrived EXCEPT ![k].n = Len(log) + 1]
    /\ UNCHANGED <<conn, members, participants>>
    /\ UNCHANGED outsideRooms

\* One step of a connection, in a run of at most cap emits.
RoomStep(s, cap) ==
    \/ Connect(s)
    \/ OnJoin(s, cap)
    \/ OnDisconnect(s, cap)
    \/ OnUpdateScene(s, cap)
    \/ OnCursorMove(s, cap)

(***************************************************************************)
(* Specifications.                                                         *)
(***************************************************************************)

\* One upload at a time: the restore as a sequential program.
NextRestore ==
    \/ ImportData("i1")
    \/ RestoreStep("i1")
    \/ ImportDataReturn("i1")

\* The pull orchestrator alone: start_pull requests and their threads.
NextPull ==
    \E r \in PullReqs : StartPullStep(r) \/ TaskStep(r)

\* One upload and one pull side by side.
NextShared ==
    \/ \E r \in {"p1"} : StartPullStep(r) \/ TaskStep(r)
    \/ \E c \in {"i2"} : ImportData(c) \/ RestoreStep(c) \/ ImportDataReturn(c)

Init == InitRestore /\ InitPull /\ InitStore /\ InitRooms

\* A data root that holds two entries, on a file system and a database of
\* which up to MaxFaults calls fail.
InitShared ==
    /\ Init
    /\ DATA_DIR = [n \in Names |-> "x"]
    /\ faults = 0

\* Any data root, on a file system and a database of which up to
\* MaxFaults calls fail.
InitFaulty ==
    /\ Init
    /\ faults = 0

\* A data root that holds two entries, on a file system and a database of
\* which no call fails for a reason of its own: a call fails only because
\* of what another thread did to its path.
InitSound ==
    /\ Init
    /\ DATA_DIR = [n \in Names |-> "x"]
    /\ faults = MaxFaults

\* A data root that holds two entries, on a file system and a database of
\* which up to MaxPullFaults calls fail.
InitPulls ==
    /\ Init
    /\ DATA_DIR = [n \in Names |-> "x"]
    /\ faults = MaxFaults - MaxPullFaults

\* A data root that holds two entries, on a file system and a database of
\* which up to MaxLiveFaults calls fail.
InitLive ==
    /\ Init
    /\ DATA_DIR = [n \in Names |-> "x"]
    /\ faults = MaxFaults - MaxLiveFaults

\* The pull orchestrator and the status page's polling.
NextStatus ==
    \/ NextPull
    \/ ApiPullStatus

SpecStatus == InitLive /\ [][NextStatus]_vars

SpecRestore == InitFaulty /\ [][NextRestore]_vars

SpecPull == InitPulls /\ [][NextPull]_vars

SpecShared == InitSound /\ [][NextShared]_vars

\* What is left of start_pull once it holds the lock: lines 470-485 run
\* without waiting for anything.
StartPullRest(r) == StartPullCheck(r) \/ StartPullSet(r) \/ StartPullReturn(r)

\* The pull orchestrator with its scheduling: a request that holds the
\* lock runs on to its redirect, and a started thread (daemon, line 480)
\* keeps being scheduled; requests.get comes back within its timeout, and
\* a thread waiting at "with pull_lock" gets the lock once it is released.
SpecPullLive ==
    /\ InitLive
    /\ [][NextPull]_vars
    /\ \A r \in PullReqs : WF_vars(StartPullRest(r)) /\ SF_vars(TaskStep(r))

\* The drawings' routes, one request at a time.
NextDrawings == DrawingStep("s1")

SpecDrawings == InitShared /\ [][NextDrawings]_vars

\* The JSON of a partial save: the elements or the appState, and nothing
\* else.
PartialBodies ==
    {j \in JsonBodies :
        \E k \in {"elements", "appState"} : \A n \in AllKeys : (j[n] # Absent) = (n = k)}

\* A save whose request carries one key.
SavePartial(q) == SaveLoad(q) /\ sloc'[q].json \in PartialBodies

\* Two clients that create drawings and save parts of them side by side.
NextSaves ==
    \E q \in StoreReqs : CreateExcalidraw(q) \/ SavePartial(q) \/ SaveCommit(q)

SpecSaves == InitShared /\ [][NextSaves]_vars

\* The instances' routes, one request at a time.
NextInstances == InstanceStep("s1")

SpecInstances == InitShared /\ [][NextInstances]_vars

\* Any nodes.json beside app.py.
InitSeed ==
    /\ InitRestore
    /\ InitPull
    /\ InitTables
    /\ InitRooms
    /\ DATA_DIR = [n \in Names |-> "x"]
    /\ faults = 0
    /\ nodes_file \in NodeFiles

\* Startups and, between them, requests to the instances' routes one at a
\* time.
NextSeed ==
    \/ SeedNodes
    \/ InstanceStep("s1")

SpecSeed == InitSeed /\ [][NextSeed]_vars

\* Startups and, between them, requests to add and delete instances that
\* run side by side.
NextUnique ==
    \/ SeedNodes
    \/ \E q \in StoreReqs :
          \/ AddInstanceCheck(q)
          \/ AddInstanceCommit(q)
          \/ DeleteInstanceLoad(q)
          \/ DeleteInstanceCommit(q)

SpecUnique == InitSeed /\ [][NextUnique]_vars

\* The Socket.IO handlers; the server runs one handler at a time.
NextRooms == \E s \in Sids : RoomStep(s, MaxEvents)

SpecRooms == InitShared /\ [][NextRooms]_vars

\* The rooms with every update_scene and cursor_move handled by a task of
\* its own: the tasks run in any order, the joins before the last emit.
NextRoomsAsync ==
    \/ \E s \in Sids : Connect(s) \/ OnJoin(s, MaxEvents - 1) \/ ReceiveEvent(s)
    \/ \E k \in 1 .. MaxArrivals : RunUpdateScene(k) \/ RunCursorMove(k)

SpecRoomsAsync == InitShared /\ [][NextRoomsAsync]_vars

\* The same handlers in a run that is one emit longer.
NextRoomsLong == \E s \in Sids : RoomStep(s, MaxEvents + 1)

SpecRoomsLong == InitShared /\ [][NextRoomsLong]_vars

(***************************************************************************)
(* The restore's contract.                                                 *)
(***************************************************************************)

\* A caller has the result of restore_data_from_zip in hand.
Returned(c, r) == rpc[c] = "ret" /\ rres[c] = r

\* C3: whenever restore_data_from_zip returns the ordinary failure
\* ("Original data has been preserved"), the data root holds exactly the
\* entries it held when the function was called.
C3_AllOrNothing ==
    \A c \in Callers : Returned(c, "preserved") => DATA_DIR = before[c]

\* C4: while a caller is still extracting, and when it returns the
\* extraction failure, it has not released the database connections nor
\* moved or deleted an entry of the data root, and the data root is what
\* it was at the call.
C4_ExtractFailureLeavesDataRoot ==
    \A c \in Callers :
        /\ rpc[c] = "extract" => ~touched[c] /\ DATA_DIR = before[c]
        /\ Returned(c, "extract_failed") =>
              /\ ~touched[c]
              /\ DATA_DIR = before[c]


\* C4's case: an extraction failure was returned over a data root that
\* holds entries.
C4_Witness ==
    \E c \in Callers : Returned(c, "extract_failed") /\ Listing(DATA_DIR) = Names

\* C5: whenever restore_data_from_zip returns success, the data root holds
\* exactly the top-level entries of the archive: every entry of the archive
\* with the archive's content, and no name the archive does not have.
C5_SwapCorrect ==
    \A c \in Callers :
        Returned(c, "ok") =>
            /\ DATA_DIR = zip[c].files
            /\ \A n \in Listing(before[c]) \ Listing(zip[c].files) :
                   DATA_DIR[n] = Absent

\* C5's case: a success that replaced one entry by a different content of
\* the same name and dropped an entry the archive does not have.
C5_Witness ==
    \E c \in Callers :
        /\ Returned(c, "ok")
        /\ Listing(before[c]) = Names
        /\ \E n \in Names : zip[c].files[n] = Absent
        /\ \E n \in Names : zip[c].files[n] \notin {Absent, before[c][n]}

\* C6: no two callers of restore_data_from_zip are inside the swap phase
\* (or the recovery and cleanup that follow it) at the same time.
C6_OneRestoreAtATime ==
    Cardinality({c \in Callers :
                   rpc[c] \in SwapPhase \cup RecoveryPhase \cup FinalPhase}) <= 1

(***************************************************************************)
(* The pull orchestrator's contract.                                       *)
(***************************************************************************)

\* The threads between their start and their terminal status write.
Flying == {r \in PullReqs : tpc[r] \in InFlight}

\* C1: at most one pull thread is between its start and its terminal
\* status write, that thread exists only while the status is 'running',
\* and a start_pull that sees 'running' under the lock starts no thread.
C1_SingleFlight ==
    /\ [](Cardinality(Flying) <= 1)
    /\ [](Flying # {} => pull_status.status = "running")
    /\ [][\A r \in PullReqs :
            (qpc[r] = "locked" /\ qpc'[r] # "locked"
               /\ pull_status.status = "running")
                => tpc' = tpc]_vars

\* C1's case: two threads are alive, one in its restore and the other past
\* its terminal status write.
C1_Witness ==
    \E r, q \in PullReqs :
        /\ tpc[r] = "restore"
        /\ rpc[r] \in SwapPhase
        /\ tpc[q] = "finally"

\* C2: the step in which start_pull rejects a request changes neither the
\* status nor the message, and a request is rejected exactly when it found
\* the status 'running'.
C2_RejectLeavesSlot ==
    [][\A r \in PullReqs :
         (qpc[r] = "locked" /\ qpc'[r] # "locked") =>
           /\ (qresp'[r] = "rejected") = (pull_status.status = "running")
           /\ qresp'[r] = "rejected" => pull_status' = pull_status]_vars

\* C2's case: a request was rejected while the thread of another request
\* had already replaced the initializing message.
C2_Witness ==
    \E r \in PullReqs :
        /\ qresp[r] = "rejected"
        /\ qpc[r] = "idle"
        /\ pull_status.status = "running"
        /\ pull_status.message.text = "Restoring data"

\* The edges of the status slot.
StatusEdges ==
    {<<"idle", "running">>, <<"running", "running">>, <<"running", "success">>,
     <<"running", "error">>, <<"success", "running">>, <<"error", "running">>}

\* A start_pull request is accepted in this step.
Accepted == \E r \in PullReqs : qpc[r] = "accepted" /\ qpc'[r] = "started"

\* C7: every change of the status slot follows an edge of StatusEdges; the
\* slot leaves idle, success and error only in the step that accepts a
\* start_pull, and a running slot is changed only by the pull thread.
C7_StatusEdges ==
    [][pull_status' # pull_status =>
         /\ <<pull_status.status, pull_status'.status>> \in StatusEdges
         /\ pull_status.status # "running" => Accepted
         /\ pull_status.status = "running" => ~Accepted]_vars

\* C7's case: a second pull was accepted after a finished one and its
\* thread has updated the message.
C7_Witness ==
    /\ pull_status.status = "running"
    /\ pull_status.message.text = "Attempting to pull"
    /\ \E r, q \in PullReqs : tpc[r] = "fetch" /\ tpc[q] = "finally"

(***************************************************************************)
(* The document store's contract.                                          *)
(***************************************************************************)

\* C8: a save that succeeds leaves in the drawing's stored data, for each
\* of the keys elements, appState, files and name that the request holds,
\* the request's value, and for every other key (a key the request does
\* not hold, directory, a key outside the four) what was stored before; no
\* other drawing changes.
C8_MergeInvariant ==
    [][\A q \in StoreReqs :
         (spc[q] = "save" /\ sresp'[q] = "success") =>
            LET d == sloc[q].id
                json == sloc[q].json
            IN
            /\ \A k \in AllKeys :
                  drawings'[d][k] =
                      IF k \in {"elements", "appState", "files", "name"}
                         /\ json[k] # Absent
                      THEN json[k]
                      ELSE drawings[d][k]
            /\ \A e \in DrawingIds \ {d} : drawings'[e] = drawings[e]]_vars

\* A save of elements alone has succeeded on a drawing that was created
\* with a name: elements are the request's, the rest is as created.
C8_Witness ==
    /\ sresp["s1"] = "success"
    /\ drawings[1] # NoRow
    /\ drawings[1]["elements"] = NewVal
    /\ drawings[1]["appState"] = OldVal
    /\ drawings[1]["files"] = OldVal
    /\ drawings[1]["name"] = OldVal
    /\ drawings[1]["directory"] = OldVal
    /\ drawings[1]["other"] = Absent

\* C9: add_instance goes on to insert a row only when no stored instance's
\* URL, stripped of its trailing slashes, equals the submitted URL stripped
\* of its trailing slashes; otherwise it is rejected and the instances
\* stay as they are.
C9_AddConflict ==
    [][\A q \in StoreReqs :
         (spc[q] = "idle" /\ spc'[q] = "add") =>
            ~\E i \in DOMAIN instances :
                Rstrip(instances[i].url) = Rstrip(sloc'[q].url)]_vars

(***************************************************************************)
(* The rooms' contract.                                                    *)
(***************************************************************************)

\* C10: when a connection s sends update_scene or cursor_move for a room r,
\* the message is delivered to exactly the connections that are in r at
\* that moment and are not s: never to s, never to a connection outside r.
C10_BroadcastExclusion ==
    [][(Len(log') = Len(log) + 1
        /\ log'[Len(log')].event \in {"update_scene", "cursor_move"}) =>
          LET e == log'[Len(log')] IN
          \A t \in Sids :
             /\ (inbox'[t] # inbox[t]) <=>
                   (conn[t] = "connected" /\ t \in members[e.room] /\ t # e.from)
             /\ inbox'[t] # inbox[t] =>
                   /\ Len(inbox'[t]) = Len(inbox[t]) + 1
                   /\ inbox'[t][Len(inbox'[t])].event = e.event
                   /\ inbox'[t][Len(inbox'[t])].room = e.room
                   /\ inbox'[t][Len(inbox'[t])].from = e.from]_vars

\* A and B are in room 5, C is connected and is not; A has sent
\* update_scene for room 5: B holds it, A and C do not.
C10_Witness ==
    /\ {"A", "B"} \subseteq members["5"]
    /\ conn["C"] = "connected"
    /\ "C" \notin members["5"]
    /\ \E i \in DOMAIN inbox["B"] :
          /\ inbox["B"][i].event = "update_scene"
          /\ inbox["B"][i].from = "A"
          /\ inbox["B"][i].room = "5"
    /\ \A t \in {"A", "C"} : \A i \in DOMAIN inbox[t] :
          inbox[t][i].event # "update_scene"

\* The connection ids that a dict of users holds.
SidsOf(users) == {users[j].sid : j \in DOMAIN users}

\* The rooms whose participant map holds connection s.
RoomsOf(s) ==
    {participants[i].room : i \in {k \in DOMAIN participants :
                                      s \in SidsOf(participants[k].users)}}

\* C11: the step in which a connection disconnects leaves its id in no
\* room's participant map, and what it broadcasts is the list of the names
\* left in the room, sent to the room's remaining members; when the
\* connection was in no room the step changes no room, no map, and sends
\* nothing.
C11_DisconnectCleanup ==
    [][\A s \in Sids :
         (conn[s] = "connected" /\ conn'[s] = "gone") =>
            IF RoomsOf(s) = {}
            THEN UNCHANGED <<members, participants, inbox, log>>
            ELSE /\ \A i \in DOMAIN participants' :
                      s \notin SidsOf(participants'[i].users)
                 /\ Len(log') = Len(log) + 1
                 /\ LET e == log'[Len(log')] IN
                    /\ e.event = "room_users"
                    /\ e.room \in RoomsOf(s)
                    /\ \A t \in members[e.room] \ {s} :
                          /\ Len(inbox'[t]) = Len(inbox[t]) + 1
                          /\ \E k \in DOMAIN participants' :
                                /\ participants'[k].room = e.room
                                /\ inbox'[t][Len(inbox'[t])].data =
                                      Values(participants'[k].users)]_vars

\* C12: the step in which a connection joins a room leaves the connection
\* in the room's participant map, and the room_users list it sends holds
\* one name for each connection that is in the room, the joiner included,
\* and no other name; every connection in the room receives it, the joiner
\* included, and nobody else does.
C12_JoinBroadcast ==
    [][(Len(log') = Len(log) + 1 /\ conn' = conn
        /\ log'[Len(log')].event = "room_users") =>
          LET e == log'[Len(log')]
              k == CHOOSE k \in DOMAIN participants' :
                       participants'[k].room = e.room
              users == participants'[k].users
          IN
          /\ \E j \in DOMAIN participants' : participants'[j].room = e.room
          /\ e.from \in SidsOf(users)
          /\ e.from \in members'[e.room]
          /\ SidsOf(users) = members'[e.room]
          /\ Len(users) = Cardinality(members'[e.room])
          /\ \A t \in Sids :
                IF t \in members'[e.room]
                THEN /\ Len(inbox'[t]) = Len(inbox[t]) + 1
                     /\ inbox'[t][Len(inbox'[t])].event = "room_users"
                     /\ inbox'[t][Len(inbox'[t])].data = Values(users)
                ELSE inbox'[t] = inbox[t]]_vars

\* C19: a connection id is in at most one room's participant map, and the
\* id of a connection that has disconnected is in none.
C19_OneRoomPerConnection ==
    \A s \in Sids :
        /\ Cardinality(RoomsOf(s)) <= 1
        /\ conn[s] = "gone" => RoomsOf(s) = {}

(***************************************************************************)
(* Seeding and the uniqueness of URLs.                                     *)
(***************************************************************************)

\* C13: a run of seed_nodes on a table that holds a row changes no row; a
\* run on the empty table leaves it empty or holding one row for each node
\* of nodes.json that has a name and a url, in order. A second run after a
\* run that inserted therefore changes nothing.
C13_SeedIdempotent ==
    [][boots' = boots + 1 =>
         /\ instances # <<>> => (instances' = instances /\ next_id' = next_id)
         /\ instances = <<>> =>
              \/ instances' = <<>>
              \/ /\ nodes_file.exists
                 /\ [i \in DOMAIN instances' |-> instances'[i].url] =
                       LET given == SelectSeq(nodes_file.nodes,
                                              LAMBDA n : n.url # <<>>)
                       IN [i \in DOMAIN given |-> Rstrip(given[i].url)]]_vars

\* Seeding ran twice with a nodes.json of two nodes: the first run
\* inserted both, the second found the table not empty.
C13_Witness ==
    /\ boots = 2
    /\ seed_out = "not_empty"
    /\ Len(nodes_file.nodes) = 2
    /\ Len(instances) = 2
    /\ next_id = 2

\* C18: no two rows of the Instance table hold the same URL.
C18_UrlsUnique ==
    \A i, j \in DOMAIN instances :
        i # j => instances[i].url # instances[j].url

(***************************************************************************)
(* The restore's failures and its cleanup.                                 *)
(***************************************************************************)

\* The recovery of caller c ends in this step without an exception: there
\* was no backup to move back, or the emptied backup is removed.
RecoveryCompletes(c) ==
    \/ rpc[c] = "r4b" /\ ~Exists(backup_dir)
    \/ rpc[c] = "r4b_rm" /\ ~Exists(backup_dir')

\* C14: a recovery that ends with an exception makes the CRITICAL failure
\* the result of restore_data_from_zip, never success and never the
\* failure that reports the original data preserved; that result is what
\* the function returns, whatever its final cleanup does; and a pull thread
\* that was given it writes status error with that detail.
C14_CriticalSurfaced ==
    [][/\ \A c \in Callers :
            /\ (rpc[c] \in RecoveryPhase /\ rpc'[c] \notin RecoveryPhase) =>
                  rres'[c] = IF RecoveryCompletes(c) THEN "preserved" ELSE "critical"
            /\ (rpc[c] \in FinalPhase /\ rres[c] = "critical") =>
                  rres'[c] = "critical"
       /\ \A r \in PullReqs :
            (tpc[r] = "x_other" /\ tpc'[r] # "x_other" /\ terr[r] = "critical") =>
                /\ pull_status'.status = "error"
                /\ pull_status'.message.detail = "critical"]_vars

\* C16: when restore_data_from_zip has returned a result (with or without
\* success), the caller's staging directory and the temporary backup
\* directory are not on disk.
C16_CleanupOnReturn ==
    \A c \in Callers :
        (rpc[c] = "ret" /\ rres[c] # "raised") =>
            /\ ~Exists(extract_dir[c])
            /\ ~Exists(backup_dir)

\* The failures of a pull before any restore: the instance is not found,
\* the fetch fails or answers non-2xx, the content type is not a zip.
Refusals == {"not_found", "request", "not_zip"}

\* The thread of r is handling, or has handled, one of these failures.
Refused(r) ==
    /\ tpc[r] \in {"x_net", "x_other", "finally"}
    /\ terr[r] \in Refusals

C15_PullCompletes ==
    \A r \in PullReqs :
        (qpc[r] = "started" /\ ncalls < MaxCalls)
            ~> (pull_status.status \in {"success", "error"})

\* A thread has written status error after restore_data_from_zip failed
\* to extract the download.
C15_Witness ==
    \E r \in PullReqs :
        /\ tpc[r] = "finally"
        /\ terr[r] = "extract_failed"
        /\ pull_status.status = "error"

\* C20: a save that commits leaves every key that its request did not
\* carry (and every key it does not merge) at the value the row holds at
\* that moment, whatever other save has committed since it loaded the row.
C20_NoStaleWriteBack ==
    [][\A q \in StoreReqs :
         (spc[q] = "save" /\ sresp'[q] = "success") =>
             \A k \in AllKeys :
                 (k \notin Mergeable \/ sloc[q].json[k] = Absent) =>
                     drawings'[sloc[q].id][k] = drawings[sloc[q].id][k]]_vars

\* C21: of two events for one room, the one the server received first is
\* delivered first to every connection that gets both.
C21_RoomOrder ==
    \A k1, k2 \in DOMAIN arrived :
        (k1 < k2 /\ arrived[k1].room = arrived[k2].room
                 /\ arrived[k1].n > 0 /\ arrived[k2].n > 0) =>
            \A t \in Sids : \A i, j \in DOMAIN inbox[t] :
                (inbox[t][i].n = arrived[k1].n /\ inbox[t][j].n = arrived[k2].n)
                    => i < j

\* Connection t has joined room by the time "at" emits were made: on_join
\* of t has emitted the room's room_users among them.
JoinedBy(t, room, at) ==
    \E j \in 1 .. at :
        log[j] = [event |-> "room_users", room |-> room, from |-> t]

\* C24: a connection gets an update_scene or a cursor_move only when it
\* had joined the event's room before the server received the event.
C24_NoReplay ==
    \A t \in Sids : \A i \in DOMAIN inbox[t] :
        inbox[t][i].event \in {"update_scene", "cursor_move"} =>
            \A k \in DOMAIN arrived :
                arrived[k].n = inbox[t][i].n =>
                    JoinedBy(t, inbox[t][i].room, arrived[k].at)

\* The pairs that one assignment to pull_status makes: lines 46, 477, 411,
\* 421, 429, 439-442, 449 and 453.
Written ==
    {[status |-> "idle", message |-> Msg("", "")]}
    \cup {[status |-> "running", message |-> Msg(text, "")] :
            text \in {"Initializing pull", "Attempting to pull",
                      "Download complete", "Restoring data"}}
    \cup {[status |-> "success",
           message |-> Msg("Data restored successfully", "restart")]}
    \cup {[status |-> "error",
           message |-> Msg("Failed to connect or download", "request")]}
    \cup {[status |-> "error",
           message |-> Msg("An unexpected error occurred", e)] :
            e \in {"db", "not_found", "not_zip", "tmpfile", "extract_failed",
                   "preserved", "critical", "raised"}}

\* C22: what api_pull_status returns is a pair that one write has made,
\* and the lock it waits for is only ever held by a start_pull request
\* between its lines 468 and 482, never by a thread of _run_pull_task.
C22_StatusSnapshot ==
    /\ status_copy \in Written \cup {NoCopy}
    /\ pull_lock # "free" => qpc[pull_lock] \in {"locked", "accepted", "started"}

\* The status was read while a pull's restore was in its swap phase.
C22_Witness ==
    \E r \in PullReqs :
        /\ tpc[r] = "restore"
        /\ rpc[r] \in SwapPhase
        /\ status_copy = [status |-> "running",
                          message |-> Msg("Restoring data", "")]

\* C23: while restore_data_from_zip runs, from its call to its return, the
\* directory at the path DATA_DIR is the one made at startup, and no step
\* puts another one there or takes it away.
C23_DataRootStays ==
    [][(\E c \in Callers : rpc[c] # "idle" \/ rpc'[c] # "idle") =>
          /\ data_root = "made_at_start"
          /\ data_root' = data_root]_vars

\* A restore has returned the critical failure with the entries of the
\* data root changed.
C23_Witness ==
    \E c \in Callers :
        /\ rpc[c] = "ret"
        /\ rres[c] = "critical"
        /\ DATA_DIR # before[c]
        /\ data_root = "made_at_start"

====
